---- MODULE Spec2Model ----
(***************************************************************************)
(* Model of cube.py: the 54-facelet cube state (a dict keyed by integer    *)
(* triples), the move descriptor, get_rot and transform, and the frame     *)
(* queue and timer of CubeFigure.                                          *)
(*                                                                         *)
(* A Python dict is modelled as the sequence of its <<key, colour>> items  *)
(* in insertion order with pairwise distinct keys; two dicts are equal     *)
(* when they hold the same set of items, whatever the order.               *)
(***************************************************************************)
EXTENDS Integers, Sequences, FiniteSets, TLC

\* Number of transform calls explored from the initial state.
MaxMoves == 2

\* Number of transform calls explored from a hand-built state or with a
\* hand-built move.
MaxMisuse == 1

\* Longest run of one move and its repeats.
MaxRun == 4

\* The n_frames a CubeFigure is constructed with (a constructor argument).
n_frames == 3

\* Number of key presses explored on a CubeFigure.
MaxPresses == 2

(***************************************************************************)
(* Data                                                                    *)
(***************************************************************************)

\* COLOR_LETTERS[axis][sgn], axis 0..2 stored at index axis + 1.
COLOR_LETTERS ==
  << [s \in {-1, 1} |-> IF s = -1 THEN "O" ELSE "R"],
     [s \in {-1, 1} |-> IF s = -1 THEN "G" ELSE "B"],
     [s \in {-1, 1} |-> IF s = -1 THEN "Y" ELSE "W"] >>

Letters == {"O", "R", "G", "B", "Y", "W"}

\* class Move(NamedTuple): three unchecked integer fields.
Move(axis, side, n) == [axis |-> axis, side |-> side, n |-> n]

\* Variant: r.insert(0, val), the position ignored.
_insertFront(t, where, val) == <<val, t[1], t[2]>>

\* _insert(t, where, val) for a pair t.
_insert(t, where, val) ==
  CASE where = 0 -> <<val, t[1], t[2]>>
    [] where = 1 -> <<t[1], val, t[2]>>
    [] OTHER     -> <<t[1], t[2], val>>

\* The dict built by `r = {}` followed by the assignments r[nk[i]] = items[i][2]
\* for i = 1, 2, ... (the loops of get_arranged_state and of transform). An
\* assignment r[k] = color appends a new item when k is not yet a key and
\* otherwise overwrites the value of the existing item in place, so the result
\* has one item per distinct key, in the order of the keys' first writes, each
\* with the colour of the key's last write.
DictOf(items, nk) ==
  LET n        == Len(items)
      first    == {i \in 1..n : \A j \in 1..(i - 1) : nk[j] # nk[i]}
      lastOf(i) == CHOOSE j \in 1..n :
                     /\ nk[j] = nk[i]
                     /\ \A h \in (j + 1)..n : nk[h] # nk[i]
      nth(p)   == CHOOSE i \in first :
                     Cardinality({j \in first : j <= i}) = p
  IN IF Cardinality({nk[i] : i \in 1..n}) = n
       THEN [i \in 1..n |-> << nk[i], items[i][2] >>] \o << >>
       ELSE [p \in 1..Cardinality(first) |->
               << nk[nth(p)], items[lastOf(nth(p))][2] >>] \o << >>

\* The assignments of get_arranged_state in loop order: axis 0..2, sgn in
\* [-1, 1], x and y in range(-1, 2); each is
\*   r[_insert((x, y), axis, sgn * 2)] = COLOR_LETTERS[axis][sgn]
ArrangedWrites ==
  [i \in 1..54 |->
     LET j    == i - 1
         axis == j \div 18
         sgn  == IF (j \div 9) % 2 = 0 THEN -1 ELSE 1
         x    == ((j \div 3) % 3) - 1
         y    == (j % 3) - 1
     IN << _insert(<<x, y>>, axis, sgn * 2), COLOR_LETTERS[axis + 1][sgn] >>]

\* get_arranged_state()
get_arranged_state ==
  DictOf(ArrangedWrites, [i \in 1..54 |-> ArrangedWrites[i][1]])

(***************************************************************************)
(* get_rot                                                                 *)
(***************************************************************************)

\* cos and sin of q quarter turns (q * tau / 4).
Cos4(q) == CASE q % 4 = 0 -> 1 [] q % 4 = 2 -> -1 [] OTHER -> 0
Sin4(q) == CASE q % 4 = 1 -> 1 [] q % 4 = 3 -> -1 [] OTHER -> 0

\* Variant: the direction taken from the sign of n instead of the side.
DirSignByN(move) == IF move.n = -1 THEN -1 ELSE 1

\* The direction factor of get_rot.
DirSign(move) == IF move.side = -1 THEN -1 ELSE 1

\* Variant: the leading minus sign of the angle dropped.
QuartersNoMinus(move) == move.n * DirSign(move)

\* Variant: only the sign of n used, so that n = 2 is a quarter turn.
QuartersSign(move) == -((IF move.n < 0 THEN -1 ELSE 1) * DirSign(move))

\* Variant: the sign of n lost (abs(move.n)).
QuartersAbs(move) == -((IF move.n < 0 THEN -move.n ELSE move.n) * DirSign(move))

\* angle = -tau / 4 * move.n * (-1 if move.side == -1 else 1) * portion, at
\* portion = 1, counted in quarter turns.
Quarters(move) == -(move.n * DirSign(move))

\* Variant: the rotation vector built with `i == move.side` instead of
\* `i == move.axis`.
get_rotBySide(move) ==
  [axis |-> move.side,
   q    |-> IF move.side \in 0..2 THEN Quarters(move) ELSE 0]

\* get_rot(move): the rotation vector has the angle on component move.axis and
\* 0 elsewhere; for an axis outside 0..2 no component gets it and the rotation
\* is the identity.
get_rot(move) ==
  [axis |-> move.axis,
   q    |-> IF move.axis \in 0..2 THEN Quarters(move) ELSE 0]

\* Variant: the inverse rotation applied (the transposed matrix).
RotApplyInverse(rot, k) ==
  LET c == Cos4(rot.q)
      s == Sin4(rot.q)
  IN CASE rot.axis = 0 -> << k[1], c * k[2] + s * k[3], c * k[3] - s * k[2] >>
       [] rot.axis = 1 -> << c * k[1] - s * k[3], k[2], c * k[3] + s * k[1] >>
       [] rot.axis = 2 -> << c * k[1] + s * k[2], c * k[2] - s * k[1], k[3] >>
       [] OTHER        -> k

\* Variant: a rotation matrix with one entry reading the wrong component.
RotApplyTypo(rot, k) ==
  LET c == Cos4(rot.q)
      s == Sin4(rot.q)
  IN CASE rot.axis = 0 -> << k[1], c * k[2] - s * k[3], s * k[2] + c * k[2] >>
       [] rot.axis = 1 -> << c * k[1] + s * k[3], k[2], c * k[1] - s * k[1] >>
       [] rot.axis = 2 -> << c * k[1] - s * k[2], s * k[1] + c * k[1], k[3] >>
       [] OTHER        -> k

\* rot.apply(k).round().astype(int): the right-handed rotation of k by rot.q
\* quarter turns about rot.axis. cos and sin of a multiple of a quarter turn are
\* within 1e-15 of -1, 0 or 1 in floating point, so rounding the rotated vector
\* gives exactly the integer vector computed here.
RotApply(rot, k) ==
  LET c == Cos4(rot.q)
      s == Sin4(rot.q)
  IN CASE rot.axis = 0 -> << k[1], c * k[2] - s * k[3], s * k[2] + c * k[3] >>
       [] rot.axis = 1 -> << c * k[1] + s * k[3], k[2], c * k[3] - s * k[1] >>
       [] rot.axis = 2 -> << c * k[1] - s * k[2], s * k[1] + c * k[2], k[3] >>
       [] OTHER        -> k

(***************************************************************************)
(* transform                                                               *)
(***************************************************************************)

\* Variant: the layer test reading the component after move.axis.
SelectedNextAxis(move, k) ==
  move.side = 0 \/ k[((move.axis + 1) % 3) + 1] * move.side >= 1

\* Variant: the layer test with >= 2, which takes the face without its ring.
SelectedFaceOnly(move, k) ==
  move.side = 0 \/ k[move.axis + 1] * move.side >= 2

\* Variant: the layer test with >= 0, which takes the middle slice along.
SelectedWide(move, k) ==
  move.side = 0 \/ k[move.axis + 1] * move.side >= 0

\* The layer test of transform:
\*   move.side == 0 or k[move.axis] * move.side >= 1
Selected(move, k) ==
  move.side = 0 \/ k[move.axis + 1] * move.side >= 1

\* The key under which transform stores the item found at key k.
NewKey(move, k) ==
  IF Selected(move, k) THEN RotApply(get_rot(move), k) ELSE k

\* The keys written by the loop of transform, one per item of state.items() in
\* iteration order.
NewKeys(state, move) ==
  [i \in 1..Len(state) |-> NewKey(move, state[i][1])] \o << >>

\* Variant: the assignment r[k] = color indented into the if, so that only
\* the facelets of the layer are copied.
transformLayerOnly(state, move) ==
  LET layer == SelectSeq(state, LAMBDA it : Selected(move, it[1]))
  IN DictOf(layer, NewKeys(layer, move))

\* transform(state, move) when it returns.
transform(state, move) == DictOf(state, NewKeys(state, move))

\* transform(state, move) raises IndexError at k[move.axis] when the layer test
\* reaches the subscript (side # 0, some item to look at) and the axis is no
\* index of a triple.
Raises(state, move) ==
  /\ Len(state) > 0
  /\ move.side # 0
  /\ move.axis \notin 0..2

(***************************************************************************)
(* Helpers for stating properties                                          *)
(***************************************************************************)

Items(d) == {d[i] : i \in 1..Len(d)}
Keys(d)  == {d[i][1] : i \in 1..Len(d)}

\* dict equality
DictEq(a, b) == Items(a) = Items(b)

Abs(v) == IF v < 0 THEN -v ELSE v

\* The coordinate invariant: one component of absolute value 2, the other two
\* in {-1, 0, 1}.
LegalKey(k) ==
  \E a \in 1..3 : /\ Abs(k[a]) = 2
                  /\ \A b \in (1..3) \ {a} : k[b] \in {-1, 0, 1}

Coord == (-2..2) \X (-2..2) \X (-2..2)
LegalCoords == {k \in Coord : LegalKey(k)}

ValidState(d) == Len(d) = 54 /\ Keys(d) = LegalCoords

Axes       == {0, 1, 2}
Sides      == {-1, 0, 1}
Turns      == {-1, 1, 2}
ValidMoves == {Move(a, s, n) : a \in Axes, s \in Sides, n \in Turns}
ValidMove(m) == m.axis \in Axes /\ m.side \in Sides /\ m.n \in Turns

ColorCount(d, c) == Cardinality({i \in 1..Len(d) : d[i][2] = c})

(***************************************************************************)
(* State machine: a caller that starts from get_arranged_state() and keeps *)
(* replacing its state by transform(state, move), as CubeFigure.move does  *)
(* with self.state. The caller may issue any valid move, issue the last    *)
(* move again, or issue the reverse of the last move (the upper-case key   *)
(* of CubeFigure).                                                         *)
(***************************************************************************)
VARIABLES
  state,    \* the caller's current state
  prev,     \* the state passed to the last transform call
  move,     \* the move passed to the last transform call
  outcome,  \* "none" before any call; "returned" or "raised" for the last call
  depth,    \* number of transform calls made
  base,     \* the state before the first move of run
  run       \* the moves applied since base: a move, then repeats or its reverse

\* The CubeFigure object. A dict is held by reference: objs lists the dict
\* objects created so far and a reference is an index into it.
VARIABLES
  objs,          \* the State dicts created, objs[1] being the initial state
  self_state,    \* self.state: a reference into objs
  _frame_queue,  \* self._frame_queue: frames (state reference, move, portion)
  timer_on,      \* whether self._timer is running
  submitted,     \* the moves passed to CubeFigure.move so far, in order
  drawn          \* the frames drawn so far, each with the dict contents seen
                 \* and the number of moves submitted when it was drawn

figVars == << objs, self_state, _frame_queue, timer_on, submitted, drawn >>

\* CubeFigure.__init__: state = get_arranged_state(), an empty deque, a timer
\* created and not started.
FigInit ==
  /\ objs = << get_arranged_state >>
  /\ self_state = 1
  /\ _frame_queue = << >>
  /\ timer_on = FALSE
  /\ submitted = << >>
  /\ drawn = << >>

vars == << state, prev, move, outcome, depth, base, run, figVars >>

NoMove == Move(0, 0, 0)

\* move._replace(n=-move.n)
Reversed(m) == Move(m.axis, m.side, -m.n)

Init ==
  /\ state = get_arranged_state
  /\ prev = get_arranged_state
  /\ move = NoMove
  /\ outcome = "none"
  /\ depth = 0
  /\ base = get_arranged_state
  /\ run = << >>
  /\ FigInit

\* One call state = transform(state, m).
Call(m) ==
  /\ prev' = state
  /\ move' = m
  /\ depth' = depth + 1
  /\ UNCHANGED figVars
  /\ IF Raises(state, m)
       THEN outcome' = "raised" /\ state' = state
       ELSE outcome' = "returned" /\ state' = transform(state, m)

\* Any valid move.
Transform ==
  /\ depth < MaxMoves
  /\ \E m \in ValidMoves :
       /\ Call(m)
       /\ base' = state
       /\ run' = << m >>

\* The last move once more.
Repeat ==
  /\ Len(run) >= 1
  /\ Len(run) < MaxRun
  /\ \A i \in 1..Len(run) : run[i] = run[1]
  /\ Call(run[1])
  /\ base' = base
  /\ run' = Append(run, run[1])

\* The reverse of the last move, right after it. The keys of CubeFigure bind
\* quarter turns only, so the reverse of a move is again a valid move.
Reverse ==
  /\ Len(run) = 1
  /\ run[1].n \in {-1, 1}
  /\ Call(Reversed(run[1]))
  /\ base' = base
  /\ run' = Append(run, Reversed(run[1]))

Next == Transform \/ Repeat \/ Reverse

Spec == Init /\ [][Next]_vars

\* A caller that makes face turns only (side -1 or 1).
TransformFace ==
  /\ depth < MaxMoves
  /\ \E m \in ValidMoves :
       /\ m.side # 0
       /\ Call(m)
       /\ base' = state
       /\ run' = << m >>

NextFace == TransformFace \/ Repeat \/ Reverse

SpecFace == Init /\ [][NextFace]_vars

(***************************************************************************)
(* Misuse: a caller that hands transform a hand-built state or a move      *)
(* whose fields are outside the documented ranges. Move is a plain         *)
(* NamedTuple and State a plain dict, so nothing stops such a call.        *)
(***************************************************************************)

\* Hand-built states: the arranged state, the arranged state short of its last
\* item (53 items), with the key of its first item replaced by (3, 0, 0), and
\* with an extra item at (0, 0, 0) (55 items).
Fixtures ==
  { get_arranged_state,
    SubSeq(get_arranged_state, 1, 53),
    [get_arranged_state EXCEPT ![1] = << <<3, 0, 0>>, "O" >>],
    Append(get_arranged_state, << <<0, 0, 0>>, "W" >>) }

\* Moves as any caller can build them.
AnyMoves == {Move(a, s, n) : a \in 0..3, s \in -1..2, n \in {-1, 1, 2, 3}}

InitMisuse ==
  /\ state \in Fixtures
  /\ prev = state
  /\ move = NoMove
  /\ outcome = "none"
  /\ depth = 0
  /\ base = state
  /\ run = << >>
  /\ FigInit

TransformAny ==
  /\ depth < MaxMisuse
  /\ \E m \in AnyMoves :
       /\ Call(m)
       /\ base' = state
       /\ run' = << m >>

NextMisuse == TransformAny

SpecMisuse == InitMisuse /\ [][NextMisuse]_vars

(***************************************************************************)
(* CubeFigure: rendering                                                   *)
(***************************************************************************)

\* The layer test of _get_verts_facecolors, which decides whether the vertices
\* of the facelet at k are rotated in a frame:
\*   move is not None and (move.side == 0 or k[move.axis] * move.side >= 1)
RenderSelected(m, k) ==
  /\ m # NoMove
  /\ (m.side = 0 \/ k[m.axis + 1] * m.side >= 1)

(***************************************************************************)
(* CubeFigure: key presses, the frame queue and the timer                  *)
(***************************************************************************)

\* The nine lower-case bindings of self._move_keys.
LowerKeys ==
  [r |-> Move(0, 1, 1), l |-> Move(0, -1, 1),
   b |-> Move(1, 1, 1), f |-> Move(1, -1, 1),
   u |-> Move(2, 1, 1), d |-> Move(2, -1, 1),
   x |-> Move(0, 0, 1), y |-> Move(2, 0, 1), z |-> Move(1, 0, -1)]

\* k.upper()
Upper ==
  [r |-> "R", l |-> "L", b |-> "B", f |-> "F", u |-> "U", d |-> "D",
   x |-> "X", y |-> "Y", z |-> "Z"]

\* self._move_keys after the loop that adds, for each binding, the upper-case
\* key with move._replace(n=-move.n).
_move_keys ==
  [k \in DOMAIN LowerKeys \cup {Upper[c] : c \in DOMAIN LowerKeys} |->
     IF k \in DOMAIN LowerKeys
       THEN LowerKeys[k]
       ELSE Reversed(LowerKeys[CHOOSE c \in DOMAIN LowerKeys : Upper[c] = k])]

\* The keys pressed in the runs explored.
PressedKeys == {"r", "L", "x", "Z"}

\* The frames CubeFigure.move appends for move m while self.state is ref:
\* (self.state, move, (i + 1) / self.n_frames) for i in range(self.n_frames).
\* A frame's portion is num / n_frames.
FramesOf(ref, m) ==
  [i \in 1..n_frames |-> [state |-> ref, move |-> m, num |-> i]] \o << >>

\* Variant: self._timer.start() left out.
TimerStartMissing(on) == on

\* self._timer.start()
TimerStart(on) == TRUE

\* Variant: the move carried out on the dict self.state refers to, in place.
CommitInPlace(os, ref, m) ==
  [objs |-> [os EXCEPT ![ref] = transform(os[ref], m)], ref |-> ref]

\* Variant: the assignment to self.state left out.
CommitMissing(os, ref, m) ==
  [objs |-> Append(os, transform(os[ref], m)), ref |-> ref]

\* self.state = transform(self.state, move): transform builds a new dict
\* (r = {}) and self.state is bound to it; the dict it was bound to is left as
\* it was.
Commit(os, ref, m) ==
  [objs |-> Append(os, transform(os[ref], m)), ref |-> Len(os) + 1]

\* Variant: deque.pop(), which takes the newest frame.
PopRight(q) == [frame |-> q[Len(q)], rest |-> SubSeq(q, 1, Len(q) - 1)]

\* self._frame_queue.popleft()
PopLeft(q) == [frame |-> Head(q), rest |-> Tail(q)]

\* CubeFigure.move(move)
FigMove(m) ==
  LET c == Commit(objs, self_state, m)
  IN /\ _frame_queue' = _frame_queue \o FramesOf(self_state, m)
     /\ timer_on' = TimerStart(timer_on)
     /\ objs' = c.objs
     /\ self_state' = c.ref
     /\ submitted' = Append(submitted, m)
     /\ drawn' = drawn

\* CubeFigure._on_press with a bound key.
Press ==
  /\ Len(submitted) < MaxPresses
  /\ \E key \in PressedKeys : FigMove(_move_keys[key])
  /\ UNCHANGED << state, prev, move, outcome, depth, base, run >>

\* CubeFigure._on_timer, called by the timer while it runs: stop the timer
\* when the queue is empty, otherwise take the oldest frame and draw it.
OnTimer ==
  /\ timer_on
  /\ IF _frame_queue = << >>
       THEN /\ timer_on' = FALSE
            /\ UNCHANGED << _frame_queue, drawn >>
       ELSE LET p == PopLeft(_frame_queue)
            IN /\ _frame_queue' = p.rest
               /\ drawn' = Append(drawn, [frame   |-> p.frame,
                                          shown   |-> objs[p.frame.state],
                                          commits |-> Len(submitted)])
               /\ timer_on' = timer_on
  /\ UNCHANGED << objs, self_state, submitted >>
  /\ UNCHANGED << state, prev, move, outcome, depth, base, run >>

NextFig == Press \/ OnTimer

SpecFig == Init /\ [][NextFig]_vars

\* The timer keeps firing while it runs.
SpecFigLive == SpecFig /\ WF_vars(OnTimer)

(***************************************************************************)
(* Properties                                                              *)
(***************************************************************************)

\* The last call returned a state (rather than raising, or not having happened).
Returned == depth > 0 /\ outcome = "returned"

\* The colour a dict holds at key k (d must have the key).
ColorAt(d, k) == (CHOOSE it \in Items(d) : it[1] = k)[2]

\* C1: every state reachable from get_arranged_state() by transform calls with
\* valid moves has exactly 54 entries, and every key has exactly one component
\* of absolute value 2 and the other two in {-1, 0, 1}.
C1_ReachableStatesValid ==
  /\ Len(state) = 54
  /\ Cardinality(Keys(state)) = 54
  /\ \A k \in Keys(state) :
       /\ Cardinality({a \in 1..3 : Abs(k[a]) = 2}) = 1
       /\ \A a \in 1..3 : Abs(k[a]) # 2 => k[a] \in {-1, 0, 1}

\* C1 witness: a state two calls away from the arranged state, differing from
\* it and from its predecessor, produced by a face turn.
C1_Witness ==
  /\ Returned
  /\ depth >= 2
  /\ move.side # 0
  /\ ~DictEq(state, get_arranged_state)
  /\ ~DictEq(state, prev)
  /\ Len(state) = 54

\* C2: the coordinate map of the last transform call is a bijection of the 54
\* legal coordinates onto themselves: no two items of the input are written to
\* the same key (no assignment overwrites), and every legal coordinate is a key
\* of the result.
C2_CoordinateMapBijective ==
  Returned =>
    LET nk    == NewKeys(prev, move)
        image == {NewKey(move, k) : k \in LegalCoords}
    IN /\ Keys(prev) = LegalCoords
       /\ Cardinality({nk[i] : i \in 1..Len(prev)}) = Len(prev)
       /\ Cardinality(image) = Cardinality(LegalCoords)
       /\ image = LegalCoords
       /\ Len(state) = Len(prev)
       /\ Keys(state) = LegalCoords

\* C2 witness: a call on a scrambled state whose map moves some coordinates
\* and keeps others.
C2_Witness ==
  /\ Returned
  /\ ~DictEq(prev, get_arranged_state)
  /\ \E k \in LegalCoords : NewKey(move, k) # k
  /\ \E k \in LegalCoords : NewKey(move, k) = k
  /\ Keys(state) = LegalCoords

\* C3: the last transform call kept the number of facelets of every colour
\* letter, and every reachable state has 9 facelets of each of the six letters.
C3_ColorsConserved ==
  /\ \A i \in 1..Len(state) : state[i][2] \in Letters
  /\ \A c \in Letters : ColorCount(state, c) = 9
  /\ Returned => \A c \in Letters : ColorCount(state, c) = ColorCount(prev, c)

\* C3 witness: a call that changed the colour seen at some coordinate while
\* the colour counts stayed at 9.
C3_Witness ==
  /\ Returned
  /\ \E k \in Keys(prev) \cap Keys(state) : ColorAt(prev, k) # ColorAt(state, k)
  /\ \A c \in Letters : ColorCount(state, c) = 9

\* C4: a run of four Move(axis, side, 1), for any axis and any side, from any
\* reachable state gives back that state: the same colour at every coordinate.
C4_QuarterTurnOrderFour ==
  (Len(run) = 4 /\ run[1].n = 1 /\ \A i \in 1..4 : run[i] = run[1]) =>
    DictEq(state, base)

\* C4 witness: four quarter turns of one face made from a scrambled state, the
\* third having given a state different from the start and the fourth the
\* start again.
C4_Witness ==
  /\ Len(run) = 4
  /\ \A i \in 1..4 : run[i] = Move(0, 1, 1)
  /\ ~DictEq(base, get_arranged_state)
  /\ ~DictEq(prev, base)
  /\ DictEq(state, base)

\* C5: a face turn Move(a, s, n) with n = 1 or -1 followed by Move(a, s, -n)
\* gives back the state it started from, and so does the half turn
\* Move(a, s, 2) made twice.
C5_InverseLaw ==
  (/\ Len(run) = 2
   /\ run[1].side \in {-1, 1}
   /\ \/ run[1].n \in {1, -1} /\ run[2] = Move(run[1].axis, run[1].side, -run[1].n)
      \/ run[1].n = 2 /\ run[2] = run[1])
  => DictEq(state, base)

\* C5 witness: a face turn of a scrambled state undone by its reverse.
C5_Witness ==
  /\ Len(run) = 2
  /\ run[1] = Move(1, -1, 1)
  /\ run[2] = Move(1, -1, -1)
  /\ ~DictEq(base, get_arranged_state)
  /\ ~DictEq(prev, base)
  /\ DictEq(state, base)

\* C6: after a face turn (side -1 or 1), every facelet of the input whose
\* coordinate k has k[move.axis] * move.side < 1 is in the result at the same
\* coordinate with the same colour, and there are 33 such facelets.
C6_UnaffectedUnchanged ==
  (Returned /\ move.side \in {-1, 1}) =>
    LET still == {it \in Items(prev) : it[1][move.axis + 1] * move.side < 1}
    IN /\ Cardinality(still) = 33
       /\ still \subseteq Items(state)

\* C6 witness: a turn of the side 1 layer on axis 0 of a scrambled state that
\* changed the state while the facelets with first coordinate < 1 stayed.
C6_Witness ==
  /\ Returned
  /\ move.axis = 0
  /\ move.side = 1
  /\ ~DictEq(prev, get_arranged_state)
  /\ ~DictEq(state, prev)
  /\ {it \in Items(prev) : it[1][1] < 1} \subseteq Items(state)

\* The two 90 degree rotations about the x-axis; RotX is the one get_rot gives
\* Move(0, 1, 1).
RotX(k) == << k[1], k[3], -k[2] >>
RotXBack(k) == << k[1], -k[3], k[2] >>

\* C7 as stated: from the arranged state, Move(0, 1, 1) relocates the 9
\* facelets with first coordinate >= 1 by a 90 degree rotation about the
\* x-axis, leaves the coordinates of the remaining 45 unchanged and preserves
\* all 54 colours.
C7_NineRelocated ==
  (depth = 1 /\ Returned /\ move = Move(0, 1, 1)) =>
    LET layer == {it \in Items(prev) : it[1][1] >= 1}
        rest  == Items(prev) \ layer
    IN /\ Cardinality(layer) = 9
       /\ Cardinality(rest) = 45
       /\ \/ \A it \in layer : << RotX(it[1]), it[2] >> \in Items(state)
          \/ \A it \in layer : << RotXBack(it[1]), it[2] >> \in Items(state)
       /\ rest \subseteq Items(state)
       /\ Len(state) = 54

\* C7 as amended: from the arranged state, Move(0, 1, 1) relocates the 21
\* facelets with first coordinate >= 1 (the 9 of the face x = 2 and the 12 with
\* x = 1 on the four adjacent faces) by the 90 degree rotation (x, y, z) ->
\* (x, z, -y) about the x-axis, leaves the remaining 33 facelets unchanged and
\* preserves all 54 colours.
C7_LayerRelocated ==
  (depth = 1 /\ Returned /\ move = Move(0, 1, 1)) =>
    LET layer == {it \in Items(prev) : it[1][1] >= 1}
        rest  == Items(prev) \ layer
    IN /\ Cardinality(layer) = 21
       /\ Cardinality({it \in layer : it[1][1] = 2}) = 9
       /\ Cardinality({it \in layer : it[1][1] = 1}) = 12
       /\ Cardinality(rest) = 33
       /\ \A it \in layer : << RotX(it[1]), it[2] >> \in Items(state)
       /\ rest \subseteq Items(state)
       /\ Len(state) = 54
       /\ Cardinality(Items(state)) = 54

\* C7 witness: the arranged state after Move(0, 1, 1), with the blue facelet of
\* (1, 2, 0) now at (1, 0, -2).
C7_Witness ==
  /\ depth = 1
  /\ Returned
  /\ move = Move(0, 1, 1)
  /\ DictEq(prev, get_arranged_state)
  /\ << <<1, 2, 0>>, "B" >> \in Items(prev)
  /\ << <<1, 0, -2>>, "B" >> \in Items(state)

\* C8: from the arranged state, a whole-cube rotation Move(axis, 0, n) followed
\* by its inverse (Move(axis, 0, -n) for n = 1 or -1, the same move for n = 2)
\* gives the arranged state, and so do four successive Move(axis, 0, 1).
C8_WholeCubeRotationsReturn ==
  (/\ DictEq(base, get_arranged_state)
   /\ Len(run) >= 1
   /\ run[1].side = 0
   /\ \/ /\ Len(run) = 2
         /\ run[1].n \in {1, -1}
         /\ run[2] = Move(run[1].axis, 0, -run[1].n)
      \/ /\ Len(run) = 2
         /\ run[1].n = 2
         /\ run[2] = run[1]
      \/ /\ Len(run) = 4
         /\ run[1].n = 1
         /\ \A i \in 1..4 : run[i] = run[1])
  => DictEq(state, get_arranged_state)

\* C8 witness: the arranged state rotated as a whole about axis 2, which moved
\* the face colours, and rotated back.
C8_Witness ==
  /\ depth = 2
  /\ run = << Move(2, 0, 1), Move(2, 0, -1) >>
  /\ ~DictEq(prev, get_arranged_state)
  /\ DictEq(state, get_arranged_state)

\* C9: a call of transform with a move whose axis is not in {0, 1, 2}, whose
\* side is not in {-1, 0, 1} or whose n is not in {-1, 1, 2} raises and returns
\* no state.
C9_InvalidMoveRejected ==
  (depth > 0 /\ ~ValidMove(move)) => outcome = "raised"

\* C10: a call of transform with a state that has a key violating the
\* coordinate invariant or that does not have exactly 54 entries raises and
\* returns no state.
C10_InvalidStateRejected ==
  (depth > 0 /\ ValidMove(move) /\ ~ValidState(prev)) => outcome = "raised"

\* The six faces (axis, sign).
Faces == {<<a, sgn>> : a \in Axes, sgn \in {-1, 1}}

\* C11: get_arranged_state() has exactly 54 entries, one for each legal
\* coordinate; on each of the 6 faces (axis, sign) all 9 facelets whose axis
\* component is 2 * sign carry COLOR_LETTERS[axis][sign]; the six face letters
\* are pairwise distinct.
C11_ArrangedState ==
  depth = 0 =>
    /\ Len(state) = 54
    /\ Keys(state) = LegalCoords
    /\ Cardinality(LegalCoords) = 54
    /\ \A f \in Faces :
         LET face == {it \in Items(state) : it[1][f[1] + 1] = 2 * f[2]}
         IN /\ Cardinality(face) = 9
            /\ \A it \in face : it[2] = COLOR_LETTERS[f[1] + 1][f[2]]
    /\ \A f, g \in Faces :
         f # g => COLOR_LETTERS[f[1] + 1][f[2]] # COLOR_LETTERS[g[1] + 1][g[2]]

\* C11 witness: the state as constructed, with red on the face x = 2 and
\* yellow on the face z = -2.
C11_Witness ==
  /\ depth = 0
  /\ state = get_arranged_state
  /\ << <<2, -1, 1>>, "R" >> \in Items(state)
  /\ << <<0, 1, -2>>, "Y" >> \in Items(state)

\* The faces on which coordinates of K lie.
FacesOf(K) ==
  {f \in Faces : \E k \in K : k[f[1] + 1] = 2 * f[2]}

\* C12: for a face turn (side -1 or 1) the keys of a valid state that pass the
\* layer test are exactly the 21-facelet layer: the 9 facelets with k[axis] =
\* 2 * side and the 12 facelets with k[axis] = side on the four adjacent
\* faces, and none with k[axis] in {0, -side, -2 * side}; for side = 0 the
\* test passes all 54. The frame renderer's test agrees with transform's on
\* every key.
C12_LayerSelected ==
  Returned =>
    LET a    == move.axis + 1
        sel  == {k \in Keys(prev) : Selected(move, k)}
        face == {k \in Keys(prev) : k[a] = 2 * move.side}
        ring == {k \in Keys(prev) : k[a] = move.side}
    IN /\ move.side \in {-1, 1} =>
            /\ sel = face \cup ring
            /\ Cardinality(sel) = 21
            /\ Cardinality(face) = 9
            /\ Cardinality(ring) = 12
            /\ Cardinality(FacesOf(ring)) = 4
            /\ \A k \in sel : k[a] \notin {0, -move.side, -2 * move.side}
       /\ move.side = 0 => sel = Keys(prev) /\ Cardinality(sel) = 54
       /\ \A k \in Keys(prev) : RenderSelected(move, k) <=> Selected(move, k)
       /\ \A it \in Items(prev) : it[1] \notin sel => it \in Items(state)

\* C12 witness: a turn of the side -1 layer on axis 2 of a scrambled state,
\* which took (1, 1, -2) and (2, 0, -1) and left (2, 0, 0) and (2, 0, 1).
C12_Witness ==
  /\ Returned
  /\ move.axis = 2
  /\ move.side = -1
  /\ ~DictEq(prev, get_arranged_state)
  /\ Selected(move, <<1, 1, -2>>)
  /\ Selected(move, <<2, 0, -1>>)
  /\ ~Selected(move, <<2, 0, 0>>)
  /\ ~Selected(move, <<2, 0, 1>>)
  /\ ~DictEq(state, prev)

\* The right-handed rotation of k about coordinate axis a (0, 1 or 2) by t
\* quarter turns, written out per axis: a positive quarter turn about x takes
\* y to z, about y takes z to x, about z takes x to y.
RightHanded(a, t, k) ==
  LET plus(v)  == CASE a = 0 -> << v[1], -v[3], v[2] >>
                    [] a = 1 -> << v[3], v[2], -v[1] >>
                    [] OTHER -> << -v[2], v[1], v[3] >>
  IN CASE t % 4 = 0 -> k
       [] t % 4 = 1 -> plus(k)
       [] t % 4 = 2 -> plus(plus(k))
       [] OTHER     -> plus(plus(plus(k)))

\* The d of the claim: -1 for side -1, +1 otherwise.
ClaimDir(m) == IF m.side = -1 THEN -1 ELSE 1

\* C13 as stated: the full turn that transform applies to an affected
\* coordinate is the right-handed rotation about axis move.axis by
\* 90 degrees * move.n * d; Move(0, 1, 1) sends an affected (x, y, z) to
\* (x, -z, y) and Move(0, -1, 1) sends it to (x, z, -y).
C13_PositiveAngle ==
  Returned =>
    \A it \in Items(prev) :
      Selected(move, it[1]) =>
        /\ << RightHanded(move.axis, move.n * ClaimDir(move), it[1]), it[2] >>
             \in Items(state)
        /\ move = Move(0, 1, 1) =>
             << << it[1][1], -it[1][3], it[1][2] >>, it[2] >> \in Items(state)
        /\ move = Move(0, -1, 1) =>
             << << it[1][1], it[1][3], -it[1][2] >>, it[2] >> \in Items(state)

\* C13 as amended: the full turn that transform applies to an affected
\* coordinate is the right-handed rotation about axis move.axis by
\* -90 degrees * move.n * d (the angle of get_rot carries a leading minus
\* sign); Move(0, 1, 1) sends an affected (x, y, z) to (x, z, -y) and
\* Move(0, -1, 1) sends it to (x, -z, y).
C13_NegativeAngle ==
  Returned =>
    \A it \in Items(prev) :
      Selected(move, it[1]) =>
        /\ << RightHanded(move.axis, -(move.n * ClaimDir(move)), it[1]), it[2] >>
             \in Items(state)
        /\ move = Move(0, 1, 1) =>
             << << it[1][1], it[1][3], -it[1][2] >>, it[2] >> \in Items(state)
        /\ move = Move(0, -1, 1) =>
             << << it[1][1], -it[1][3], it[1][2] >>, it[2] >> \in Items(state)

\* C13 witness: Move(0, -1, 1) made on a scrambled state, which took the
\* facelet of (-1, 2, 0) to (-1, 0, 2).
C13_Witness ==
  /\ Returned
  /\ move = Move(0, -1, 1)
  /\ ~DictEq(prev, get_arranged_state)
  /\ \E c \in Letters :
       /\ << <<-1, 2, 0>>, c >> \in Items(prev)
       /\ << <<-1, 0, 2>>, c >> \in Items(state)
       /\ << <<-1, 0, 2>>, c >> \notin Items(prev)

\* C14: two successive Move(axis, side, 1), and equally two successive
\* Move(axis, side, -1), from any reachable state and for every axis and
\* every side in {-1, 0, 1}, give the state that the half turn
\* Move(axis, side, 2) gives.
C14_HalfTurnIsTwoQuarters ==
  (/\ Len(run) = 2
   /\ run[1].n \in {1, -1}
   /\ run[2] = run[1])
  => DictEq(state, transform(base, Move(run[1].axis, run[1].side, 2)))

\* C14 witness: two Move(1, 1, -1) made from a scrambled state, ending in a
\* state that differs from the start and from the state after one of them.
C14_Witness ==
  /\ Len(run) = 2
  /\ run[1] = Move(1, 1, -1)
  /\ run[2] = Move(1, 1, -1)
  /\ ~DictEq(base, get_arranged_state)
  /\ ~DictEq(state, base)
  /\ ~DictEq(state, prev)
  /\ DictEq(state, transform(base, Move(1, 1, 2)))

\* transform folded over the moves ms from the dict s.
RECURSIVE FoldMoves(_, _)
FoldMoves(s, ms) ==
  IF ms = << >> THEN s ELSE FoldMoves(transform(s, Head(ms)), Tail(ms))

\* The frames drawn so far followed by the frames still queued.
AllFrames == [p \in 1..Len(drawn) |-> drawn[p].frame] \o _frame_queue

\* The position in submitted of the move a frame at position p of AllFrames
\* should belong to, and the numerator of the portion it should carry.
MoveIndex(p) == ((p - 1) \div n_frames) + 1
PortionNum(p) == ((p - 1) % n_frames) + 1

\* C15: under any interleaving of key presses and timer callbacks, the frames
\* drawn followed by the frames queued are, move by move in submission order,
\* the n_frames frames of each move with portions 1/n_frames, 2/n_frames, ...,
\* 1 (so frames are drawn in order, never interleaved and never twice); every
\* submitted move has been committed exactly once and self.state is transform
\* folded over the submitted moves in order.
C15_FramesInOrderCommittedOnce ==
  /\ Len(AllFrames) = n_frames * Len(submitted)
  /\ \A p \in 1..Len(AllFrames) :
       /\ AllFrames[p].move = submitted[MoveIndex(p)]
       /\ AllFrames[p].num = PortionNum(p)
  /\ Len(objs) = Len(submitted) + 1
  /\ DictEq(objs[self_state], FoldMoves(get_arranged_state, submitted))

\* C15 witness: two different moves submitted, the frames of the first and
\* one frame of the second drawn, the second having been submitted before any
\* frame of the first was drawn.
C15_Witness ==
  /\ Len(submitted) = 2
  /\ submitted[1] # submitted[2]
  /\ Len(drawn) = n_frames + 1
  /\ drawn[1].commits = 2
  /\ drawn[n_frames + 1].frame.move = submitted[2]
  /\ _frame_queue # << >>

\* C16 as stated: self.state is replaced by transform(state, move) only after
\* the frames of that move have been drawn: the number of moves committed is
\* at most the number of moves whose n_frames frames have all been drawn.
C16_CommitAfterFrames ==
  Len(objs) - 1 <= Len(drawn) \div n_frames

\* C16 as amended: CubeFigure.move queues the frames of the move and replaces
\* self.state by transform(state, move) once, in the same call, before any of
\* these frames is drawn; the frames are rendered afterwards with increasing
\* portions. So every submitted move is committed, whether or not its frames
\* have been drawn, and every frame drawn belongs to a move already committed.
C16_CommitBeforeFrames ==
  /\ Len(objs) = Len(submitted) + 1
  /\ self_state = Len(objs)
  /\ \A j \in 1..Len(submitted) :
       DictEq(objs[j + 1], transform(objs[j], submitted[j]))
  /\ \A p \in 1..Len(drawn) :
       /\ MoveIndex(p) <= drawn[p].commits
       /\ p > 1 /\ MoveIndex(p) = MoveIndex(p - 1)
            => drawn[p].frame.num > drawn[p - 1].frame.num

\* C16 witness: a move committed while none of its frames has been drawn.
C16_Witness ==
  /\ Len(submitted) >= 1
  /\ Len(drawn) = 0
  /\ Len(_frame_queue) = n_frames * Len(submitted)
  /\ self_state = Len(submitted) + 1
  /\ ~DictEq(objs[self_state], get_arranged_state)

\* The state before the j-th submitted move.
PreMoveState(j) == FoldMoves(get_arranged_state, SubSeq(submitted, 1, j - 1))

\* Every frame queued carries the pre-move state of its move, and every frame
\* drawn showed it.
FramesHoldPreMoveState ==
  /\ \A q \in 1..Len(_frame_queue) :
       DictEq(objs[_frame_queue[q].state], PreMoveState(MoveIndex(Len(drawn) + q)))
  /\ \A p \in 1..Len(drawn) :
       DictEq(drawn[p].shown, PreMoveState(MoveIndex(p)))

\* C17: every frame queued for the k-th submitted move carries the state
\* obtained by applying the first k-1 submitted moves to the initial state,
\* also when later moves are submitted and committed before the frame is
\* drawn; a step that draws a frame leaves self.state as it was.
C17_FramesCarryPreMoveState ==
  /\ []FramesHoldPreMoveState
  /\ [][Len(drawn') > Len(drawn) =>
          /\ self_state' = self_state
          /\ objs' = objs]_vars

\* C17 witness: a frame of the first move drawn, showing the initial state,
\* after a second move was committed.
C17_Witness ==
  /\ Len(submitted) = 2
  /\ Len(drawn) >= 2
  /\ drawn[1].commits = 1
  /\ drawn[2].commits = 2
  /\ MoveIndex(2) = 1
  /\ DictEq(drawn[2].shown, get_arranged_state)
  /\ ~DictEq(objs[self_state], get_arranged_state)
  /\ ~DictEq(objs[2], get_arranged_state)

\* C18: the timer runs whenever the frame queue is non-empty; the timer is
\* stopped only by an _on_timer callback that finds the queue empty; and when
\* the timer keeps firing while it runs, every queued frame is eventually
\* drawn and from some point on the queue is empty and the timer stopped.
C18_TimerDrainsQueue ==
  /\ [](_frame_queue # << >> => timer_on)
  /\ [][(timer_on /\ ~timer_on') =>
          /\ _frame_queue = << >>
          /\ UNCHANGED << objs, self_state, _frame_queue, submitted, drawn >>]_vars
  /\ [](Len(drawn) + Len(_frame_queue) = n_frames * Len(submitted))
  /\ <>[](_frame_queue = << >> /\ ~timer_on)

\* C18 witness: the timer stopped after all frames of two moves were drawn,
\* the second move having been submitted while frames of the first were queued.
C18_Witness ==
  /\ ~timer_on
  /\ _frame_queue = << >>
  /\ Len(submitted) = 2
  /\ Len(drawn) = n_frames * 2
  /\ drawn[n_frames].commits = 2

\* The coordinate of the centre facelet of face f = (axis, sign).
Centre(f) == _insert(<<0, 0>>, f[1], 2 * f[2])

\* C19: in every state reached from get_arranged_state() by face turns only,
\* the centre facelet of each face holds the face's original letter
\* COLOR_LETTERS[axis][sign]; a face turn leaves the colour at every centre as
\* it was, so only a whole-cube rotation can move a centre colour.
C19_CentresStay ==
  /\ \A f \in Faces :
       << Centre(f), COLOR_LETTERS[f[1] + 1][f[2]] >> \in Items(state)
  /\ (Returned /\ move.side # 0) =>
       \A f \in Faces : ColorAt(state, Centre(f)) = ColorAt(prev, Centre(f))

\* C19 witness: face turns have scrambled the face x = 2, whose corner no
\* longer is red, while its centre still is.
C19_Witness ==
  /\ Returned
  /\ depth >= 2
  /\ move.side # 0
  /\ ColorAt(state, <<2, 1, 1>>) # "R"
  /\ ColorAt(state, <<2, 0, 0>>) = "R"
  /\ ~DictEq(state, prev)

\* C20: turns of the two opposite layers on one axis commute: after
\* Move(a, 1, n) made on any reachable state s, making Move(a, -1, m) gives,
\* for every m, the state that Move(a, -1, m) followed by Move(a, 1, n) gives
\* from s.
C20_OppositeLayersCommute ==
  (Returned /\ Len(run) = 1 /\ move.side = 1) =>
    \A m \in Turns :
      LET other == Move(move.axis, -1, m)
      IN DictEq(transform(state, other),
                transform(transform(prev, other), move))

\* C20 witness: a turn of the side 1 layer made on a scrambled state, on which
\* the turn of the opposite layer changes the state as well, in either order
\* with the same result.
C20_Witness ==
  /\ Returned
  /\ Len(run) = 1
  /\ move = Move(2, 1, -1)
  /\ ~DictEq(prev, get_arranged_state)
  /\ ~DictEq(state, prev)
  /\ LET other == Move(2, -1, 1)
     IN /\ ~DictEq(transform(state, other), state)
        /\ ~DictEq(transform(prev, other), prev)
        /\ DictEq(transform(state, other), transform(transform(prev, other), move))

====
